---- MODULE Spec2Model ----
(***************************************************************************)
(* Model of main/src/user/fft.c: the table generator, the sample loader,   *)
(* the radix-2 transform, the spectrum extraction and the three output     *)
(* shapers, together with the caller's output array.                       *)
(*                                                                         *)
(* C floats are modelled as fixed-point integers: every float array has a  *)
(* scale (WinScale, RootScale, DataScale, FreqScale, XScale) and holds     *)
(* value * scale, rounded.  A float -> uint16_t conversion truncates       *)
(* toward zero and is undefined outside 0..UINT16_MAX, where the model     *)
(* picks any value of UndefinedU16.                                        *)
(***************************************************************************)
EXTENDS Integers, Sequences, FiniteSets, TLC

\* ---------------------------------------------------------------- user/fft.h
FFT_N == 4
FFT_OUT_N == 2
BAND_N == 2
BAND_FADE == 2
BAND_DELAY == 2
FFT_CHANNEL_L == 0
FFT_CHANNEL_R == 1
FFT_CHANNEL_LR == 2

UINT16_MAX == 65535

\* ---------------------------------------------------------------- bounds
\* raw blocks 0..MaxBlock, scale factors 1..MaxScale, spectrum levels 0..MaxLevel
MaxBlock == 2
MaxScale == 2
MaxLevel == 4

\* ---------------------------------------------------------------- fixed point
WinScale == 100
RootScale == 1000
XScale == 2
\* data[] holds halves of window units: (l + r) / 2.0 * window is exact
DataScale == 2 * WinScale
\* freq[] = 0.5 * cabsf / FFT_N, and freq[0] / 2.0, are exact
FreqScale == 4 * FFT_N * DataScale

Idx == 0 .. FFT_N - 1

MAX(a, b) == IF a > b THEN a ELSE b

Abs(a) == IF a < 0 THEN -a ELSE a

\* C conversion of the rational num/den (den > 0) to an integer: toward zero
Trunc(num, den) == IF num >= 0 THEN num \div den ELSE -((-num) \div den)

\* nearest integer to num/den (den > 0)
Round(num, den) == (2 * num + den) \div (2 * den)

\* the element of a singleton; {e(x) : x \in {v}} computes v once however
\* often e uses it
The(S) == CHOOSE x \in S : TRUE

\* floor(a * b / c) and the remainder, for a, b >= 0 and c > 0, computed
\* without forming a * b (which may not fit 32 bits)
RECURSIVE MulDivRem(_, _, _)
MulDivRem(a, b, c) ==
    IF b = 0 THEN <<0, 0>>
    ELSE The({LET r == 2 * h[2] + (b % 2) * (a % c)
              IN  <<2 * h[1] + (b % 2) * (a \div c) + r \div c, r % c>> :
                 h \in {MulDivRem(a, b \div 2, c)}})

MulDiv(a, b, c) == MulDivRem(a, b, c)[1]

RECURSIVE SqrtIter(_, _)
SqrtIter(v, r) ==
    The({IF n >= r THEN r ELSE SqrtIter(v, n) : n \in {(r + v \div r) \div 2}})

\* sqrtf, rounded down
sqrtf(v) == IF v <= 0 THEN 0 ELSE SqrtIter(v, v)

RECURSIVE Sum(_, _, _)
Sum(f, lo, hi) == IF lo > hi THEN 0 ELSE f[lo] + Sum(f, lo + 1, hi)

\* ---------------------------------------------------------------- libm
\* cosf(2*pi*k/den) and sinf(2*pi*k/den) in units of 1/RootScale, for the
\* denominators the tables use: FFT_N - 1 = 3 and FFT_N * 2 - 1 = 7
CosTable(den) ==
    CASE den = 3 -> <<1000, -500, -500>>
      [] den = 7 -> <<1000, 623, -223, -901, -901, -223, 623>>

SinTable(den) ==
    CASE den = 3 -> <<0, 866, -866>>
      [] den = 7 -> <<0, 782, 975, 434, -434, -975, -782>>

cosf(k, den) == CosTable(den)[(k % den) + 1]

sinf(k, den) == SinTable(den)[(k % den) + 1]

\* cexpf(-k * TWO_PI / den * I)
cexpf(k, den) == <<cosf(k, den), -sinf(k, den)>>

\* powf(base, num / den) where base is a perfect den-th power
powf(base, num, den) ==
    LET r == CHOOSE q \in 1 .. base : q ^ den = base
    IN  r ^ num

\* 10^(k/20) in units of 1/1000, k = 0..19: the decibel steps of one decade
DecibelTable ==
    <<1000, 1122, 1259, 1413, 1585, 1778, 1995, 2239, 2512, 2818,
      3162, 3548, 3981, 4467, 5012, 5623, 6310, 7079, 7943, 8913>>

NEG_INF == -1000000

RECURSIVE Decade(_, _, _)
\* brings p/q into [1, 10): <<p', e>> with p/q ~ (p'/q) * 10^e
Decade(p, q, e) ==
    IF p \div 10 >= q THEN Decade(p \div 10, q, e + 1)
    ELSE IF p < q THEN Decade(10 * p, q, e - 1)
    ELSE <<p, e>>

\* 20 * log10f(p / q) rounded down to a whole decibel; -inf for p = 0
log10f20(p, q) ==
    IF p <= 0 THEN NEG_INF
    ELSE The({20 * d[2] + The({j \in 0 .. 19 :
                                  /\ DecibelTable[j + 1] <= m
                                  /\ (j < 19 => DecibelTable[j + 2] > m)}) :
                 d \in {Decade(p, q, 0)}, m \in {MulDiv(Decade(p, q, 0)[1], 1000, q)}})

\* ---------------------------------------------------------------- complex
cadd(z, w) == <<z[1] + w[1], z[2] + w[2]>>

csub(z, w) == <<z[1] - w[1], z[2] - w[2]>>

conjf(z) == <<z[1], -z[2]>>

\* product of a data value with a twiddle factor (scale RootScale)
cmul(z, w) ==
    <<Round(z[1] * w[1] - z[2] * w[2], RootScale),
      Round(z[1] * w[2] + z[2] * w[1], RootScale)>>

cabsf(z) == sqrtf(z[1] * z[1] + z[2] * z[2])

CZero == <<0, 0>>

\* ---------------------------------------------------------------- state
VARIABLES
    generated,        \* static bool generated
    bitrev,           \* static int bitrev[FFT_N]
    window,           \* static float window[FFT_N * 2]
    xscale,           \* static float xscale[BAND_N + 1]
    root,             \* static float complex root[FFT_N / 2]
    data,             \* static float complex data[FFT_N]
    freq,             \* static float freq[FFT_N]
    delay,            \* static char delay[BAND_N] of fft_compute_bands
    data_out,         \* the caller's uint16_t output array
    call,             \* the last call made and its arguments
    time_domain,      \* the caller has a frame in data[] that is not transformed yet
    tables_computed,  \* history: number of calls of compute_fft_tables
    writes,           \* history: stores into each data[k] by the last fft_load_data
    pre,              \* history: data[] as the last fft_execute found it
    display,          \* the caller's display: its shaper and value range (SpecZero)
    entry             \* history: data_out[] and delay[] when the last shaper was entered

vars == <<generated, bitrev, window, xscale, root, data, freq, delay, data_out,
          call, time_domain, tables_computed, writes, pre, display, entry>>

tables == <<bitrev, window, xscale, root>>

\* ---------------------------------------------------------------- inputs
Int16(v) == IF v >= 32768 THEN v - 65536 ELSE v

LoByte(v) == v % 256

HiByte(v) == (v % 65536) \div 256

\* the four 16-bit samples <<re_l, re_r, im_l, im_r>> of slot i of test block k;
\* block 0 is silence
Samples(k, i) ==
    IF k = 0 THEN <<0, 0, 0, 0>>
    ELSE <<IF i = (k - 1) % FFT_N THEN 3 + k ELSE 0,
           -(k * i),
           k * (1 - i),
           (i + k) % 3>>

\* the block as the capture driver delivers it: 8 bytes per slot, little endian
RawBlock(k) ==
    [j \in 0 .. 8 * FFT_N - 1 |->
        LET v == Samples(k, j \div 8)[((j % 8) \div 2) + 1]
        IN  IF j % 2 = 0 THEN LoByte(v) ELSE HiByte(v)]

Blocks == {RawBlock(k) : k \in 0 .. MaxBlock}

\* the three selectors of fft_channel_t and one value that is none of them
Channels == {FFT_CHANNEL_L, FFT_CHANNEL_R, FFT_CHANNEL_LR, 3}

ValidChannels == {FFT_CHANNEL_L, FFT_CHANNEL_R, FFT_CHANNEL_LR}

Scales == 1 .. MaxScale

\* <<max_val, min_val>> of a shaper call: a range from zero, a range from a
\* positive minimum, an empty range, and a range at the top of uint16_t
ArgPairs == {<<8, 0>>, <<8, 3>>, <<3, 8>>, <<UINT16_MAX, UINT16_MAX - 5>>}

NoDisplay == [mode |-> "none", max_val |-> 0, min_val |-> 0]

NoCall == [op |-> "none", data_in |-> <<>>, channel |-> 0, scale_factor |-> 0,
           max_val |-> 0, min_val |-> 0]

\* ---------------------------------------------------------------- tables
RECURSIVE bit_reverse_loop(_, _, _)
bit_reverse_loop(i, x, y) ==
    IF i > 0 THEN bit_reverse_loop(i \div 2, x \div 2, 2 * y + (x % 2)) ELSE y

\* mutant: the loop starts at FFT_N >> 2 and reverses one bit too few
bit_reverse_short(x) == bit_reverse_loop(FFT_N \div 4, x, 0)

bit_reverse(x) == bit_reverse_loop(FFT_N \div 2, x, 0)

\* 0.53836 - 0.46164 * cosf(i * TWO_PI / (FFT_N * 2 - 1))
hamming(i) ==
    Round(((53836 * RootScale - 46164 * cosf(i, FFT_N * 2 - 1)) \div RootScale) * WinScale,
          100000)

\* powf(FFT_N, (float)i / BAND_N) - 0.5
log_xscale(i) == XScale * powf(FFT_N, i, BAND_N) - XScale \div 2

\* cexpf(-i * TWO_PI / (FFT_N - 1) * I)
twiddle(i) == cexpf(i, FFT_N - 1)

\* the four loops of compute_fft_tables
bitrev_table == [i \in Idx |-> bit_reverse(i)]

window_table == [i \in 0 .. FFT_N * 2 - 1 |-> hamming(i)]

xscale_table == [i \in 0 .. BAND_N |-> log_xscale(i)]

root_table == [i \in 0 .. FFT_N \div 2 - 1 |-> twiddle(i)]

compute_fft_tables ==
    /\ bitrev' = bitrev_table
    /\ window' = window_table
    /\ xscale' = xscale_table
    /\ root' = root_table
    /\ tables_computed' = tables_computed + 1

\* ---------------------------------------------------------------- fft_init
\* mutant: the tables are computed on every call, the flag is not consulted
fft_init_unguarded ==
    /\ data' = [i \in Idx |-> CZero]
    /\ compute_fft_tables /\ generated' = TRUE
    /\ call' = [NoCall EXCEPT !.op = "fft_init"]
    /\ time_domain' = TRUE
    /\ UNCHANGED <<freq, delay, data_out, writes, pre, display, entry>>

fft_init ==
    /\ data' = [i \in Idx |-> CZero]
    /\ IF ~generated
       THEN compute_fft_tables /\ generated' = TRUE
       ELSE UNCHANGED <<tables, tables_computed, generated>>
    /\ call' = [NoCall EXCEPT !.op = "fft_init"]
    /\ time_domain' = TRUE
    /\ UNCHANGED <<freq, delay, data_out, writes, pre, display, entry>>

\* ---------------------------------------------------------------- fft_load_data
Sample16(data_in, at) == Int16(data_in[at + 1] * 256 + data_in[at])

\* the windowed complex value of slot i, at scale DataScale
load_slot(data_in, channel, i) ==
    LET re_l == Sample16(data_in, i * 8)
        re_r == Sample16(data_in, i * 8 + 2)
        im_l == Sample16(data_in, i * 8 + 4)
        im_r == Sample16(data_in, i * 8 + 6)
        u    == DataScale \div WinScale
    IN  CASE channel = FFT_CHANNEL_L ->
               <<re_l * window[i * 2] * u, im_l * window[i * 2 + 1] * u>>
          [] channel = FFT_CHANNEL_R ->
               <<re_r * window[i * 2] * u, im_r * window[i * 2 + 1] * u>>
          [] channel = FFT_CHANNEL_LR ->
               <<((re_l + re_r) * window[i * 2] * u) \div 2,
                 ((im_l + im_r) * window[i * 2 + 1] * u) \div 2>>

\* mutant: the slots are stored in their own order
load_index_linear(i) == i

\* where the loop stores slot i
load_index(i) == bitrev[i]

RECURSIVE load_loop(_, _, _, _, _)
\* for (int i = 0; i < FFT_N; i++) data[bitrev[i]] = ...; <<data, stores>>
load_loop(i, d, w, data_in, channel) ==
    IF i < FFT_N
    THEN load_loop(i + 1,
                   [d EXCEPT ![load_index(i)] = load_slot(data_in, channel, i)],
                   [w EXCEPT ![load_index(i)] = @ + 1],
                   data_in, channel)
    ELSE <<d, w>>

\* mutant: the default case is the stereo mix
load_result_default_lr(data_in, channel) ==
    load_loop(0, data, [k \in Idx |-> 0], data_in,
              IF channel \in {FFT_CHANNEL_L, FFT_CHANNEL_R} THEN channel
              ELSE FFT_CHANNEL_LR)

\* the switch: a selector that is no case falls to default: break
load_result(data_in, channel) ==
    IF channel \in {FFT_CHANNEL_L, FFT_CHANNEL_R, FFT_CHANNEL_LR}
    THEN load_loop(0, data, [k \in Idx |-> 0], data_in, channel)
    ELSE <<data, [k \in Idx |-> 0]>>

fft_load_data(data_in, channel) ==
    /\ data' = load_result(data_in, channel)[1]
    /\ writes' = load_result(data_in, channel)[2]
    /\ call' = [NoCall EXCEPT !.op = "fft_load_data", !.data_in = data_in,
                              !.channel = channel]
    /\ time_domain' = (time_domain \/ channel \in ValidChannels)
    /\ UNCHANGED <<generated, tables, tables_computed, freq, delay, data_out, pre,
                   display, entry>>

\* ---------------------------------------------------------------- fft_execute
butterfly(d, g, b, half, r) ==
    The({LET even == x[g + b]
             odd  == cmul(x[g + b + half], root[r])
         IN  [x EXCEPT ![g + b] = cadd(even, odd), ![g + b + half] = csub(even, odd)] :
            x \in {d}})

RECURSIVE b_loop(_, _, _, _, _, _)
b_loop(d, g, b, r, half, i) ==
    IF b < half
    THEN b_loop(butterfly(d, g, b, half, r), g, b + 1, r + i, half, i)
    ELSE d

RECURSIVE g_loop(_, _, _, _)
g_loop(d, g, half, i) ==
    IF g < FFT_N
    THEN g_loop(b_loop(d, g, 0, 0, half, i), g + 2 * half, half, i)
    ELSE d

RECURSIVE stage_loop(_, _, _)
stage_loop(d, i, half) ==
    IF i > 0 THEN stage_loop(g_loop(d, 0, half, i), i \div 2, 2 * half) ELSE d

\* the Cooley-Tukey loops of fft_execute
transform(d) == stage_loop(d, FFT_N \div 2, 1)

\* 0.5 * cabsf(z) / FFT_N * scale_factor, at scale FreqScale
amplitude(z, scale_factor) ==
    cabsf(z) * (FreqScale \div (2 * FFT_N * DataScale)) * scale_factor

spectrum(d, scale_factor) ==
    LET f == [k \in Idx |->
                LET i == k \div 2
                    a == d[i]
                    c == conjf(d[FFT_N - 1 - i])
                IN  IF k % 2 = 0 THEN amplitude(cadd(a, c), scale_factor)
                                 ELSE amplitude(csub(a, c), scale_factor)]
    IN  [f EXCEPT ![0] = @ \div 2]

fft_execute(scale_factor) ==
    /\ time_domain
    /\ pre' = data
    /\ \E d \in {transform(data)} :
           /\ data' = d
           /\ freq' = spectrum(d, scale_factor)
    /\ call' = [NoCall EXCEPT !.op = "fft_execute", !.scale_factor = scale_factor]
    /\ time_domain' = FALSE
    /\ UNCHANGED <<generated, tables, tables_computed, delay, data_out, writes,
                   display, entry>>

\* ---------------------------------------------------------------- output shapers
Bins == 0 .. FFT_OUT_N - 1

Bands == 0 .. BAND_N - 1

\* what an out-of-range float -> uint16_t conversion may leave in the array
UndefinedU16 == {0, 5, UINT16_MAX}

\* (uint16_t)v for the integer part v of a float
ToUint16(v) == IF v >= 0 /\ v <= UINT16_MAX THEN {v} ELSE UndefinedU16

\* mutant: the lower limit is not applied
clamp_upper_only(d, max_val, min_val) == IF d > max_val THEN max_val ELSE d

\* if (d > max_val) d = max_val; else if (d < min_val) d = min_val;
clamp(d, max_val, min_val) ==
    IF d > max_val THEN max_val
    ELSE IF d < min_val THEN min_val
    ELSE d

\* n of compute_freq_lin at scale FreqScale: the sum of the step bins
freq_lin_sum(f, step, idx) == Sum(f, step * idx, step * idx + step - 1)

\* data_out[i] += compute_freq_lin(...) * (max_val / 40.0): the integer part
\* of the sum, before it is stored
lin_add(f, d, i, max_val) ==
    LET step == FFT_N \div FFT_OUT_N
    IN  d + MulDiv(2 * freq_lin_sum(f, step, i), max_val, step * FreqScale * 40)

\* data_out[i] += 20 * log10f(1 + compute_freq_lin(...)) * (max_val / 40.0)
log_add(f, d, i, max_val) ==
    LET step == FFT_N \div FFT_OUT_N
        db   == log10f20(step * FreqScale + 2 * freq_lin_sum(f, step, i),
                         step * FreqScale)
    IN  d + (db * max_val) \div 40

\* data_out[i] /= 2.0
halve(d) == d \div 2

\* the values one pass of the loop body of fft_compute_lin can leave in data_out[i]
lin_elem(f, d, i, max_val, min_val) ==
    {clamp(halve(t), max_val, min_val) : t \in ToUint16(lin_add(f, d, i, max_val))}

log_elem(f, d, i, max_val, min_val) ==
    {clamp(halve(t), max_val, min_val) : t \in ToUint16(log_add(f, d, i, max_val))}

\* the arrays a shaper can leave, given the set of values elem[i] each element
\* can take
Arrays(dom, elem) ==
    {a \in [dom -> UNION {elem[i] : i \in dom}] : \A i \in dom : a[i] \in elem[i]}

ShaperCall(op, max_val, min_val) ==
    [NoCall EXCEPT !.op = op, !.max_val = max_val, !.min_val = min_val]

fft_compute_lin(max_val, min_val) ==
    /\ \E elem \in {[i \in Bins |-> lin_elem(freq, data_out[i], i, max_val, min_val)]} :
           data_out' \in Arrays(Bins, elem)
    /\ call' = ShaperCall("fft_compute_lin", max_val, min_val)
    /\ entry' = [data_out |-> data_out, delay |-> delay]
    /\ UNCHANGED <<generated, tables, tables_computed, data, freq, delay,
                   time_domain, writes, pre, display>>

fft_compute_log(max_val, min_val) ==
    /\ \E elem \in {[i \in Bins |-> log_elem(freq, data_out[i], i, max_val, min_val)]} :
           data_out' \in Arrays(Bins, elem)
    /\ call' = ShaperCall("fft_compute_log", max_val, min_val)
    /\ entry' = [data_out |-> data_out, delay |-> delay]
    /\ UNCHANGED <<generated, tables, tables_computed, data, freq, delay,
                   time_domain, writes, pre, display>>

ceilf(v, scale) == -((-v) \div scale)

floorf(v, scale) == v \div scale

\* n of compute_freq_band at scale FreqScale * XScale
freq_band_sum(f, xs, band) ==
    LET a == ceilf(xs[band], XScale)
        b == floorf(xs[band + 1], XScale)
    IN  IF b < a
        THEN f[b] * (xs[band + 1] - xs[band])
        ELSE (IF a > 0 THEN f[a - 1] * (a * XScale - xs[band]) ELSE 0)
             + XScale * Sum(f, a, b - 1)
             + (IF b < FFT_N THEN f[b] * (xs[band + 1] - b * XScale) ELSE 0)

\* 20 * log10f(n * BAND_N / FFT_N / 12.0), in whole decibels
compute_freq_band(f, xs, band) ==
    log10f20(freq_band_sum(f, xs, band) * BAND_N, FreqScale * XScale * FFT_N * 12)

\* float x = (40 + compute_freq_band(...)) * (max_val / 64.0), as the numerator
\* of x over 64; NEG_INF when x is -inf or NaN
band_x64(f, xs, band, max_val) ==
    LET db == compute_freq_band(f, xs, band)
    IN  IF db = NEG_INF THEN NEG_INF ELSE (40 + db) * max_val

\* mutant: the displayed value is never faded
band_fade_none(d, dl) == d

\* mutant: the fade is added
band_fade_up(d, dl) == MAX(0, d + (BAND_FADE - dl)) % (UINT16_MAX + 1)

\* data_out[i] = MAX(0, data_out[i] - (BAND_FADE - delay[i]))
band_fade(d, dl) == MAX(0, d - (BAND_FADE - dl)) % (UINT16_MAX + 1)

\* mutant: the hold counter is not decremented
band_tick_stuck(dl) == dl

\* if (delay[i]) delay[i]--;
band_tick(dl) == IF dl # 0 THEN dl - 1 ELSE dl

\* if (x > data_out[i]), for the faded data_out[i]
band_rises(x64, d) == x64 # NEG_INF /\ x64 > 64 * d

\* the <<data_out[i], delay[i]>> pairs one pass of the loop body can leave
band_elem(f, xs, d, dl, i, max_val, min_val) ==
    LET x64   == band_x64(f, xs, i, max_val)
        faded == band_fade(d, dl)
    IN  IF band_rises(x64, faded)
        THEN {<<clamp(t, max_val, min_val), BAND_DELAY>> :
                 t \in ToUint16(Trunc(x64, 64))}
        ELSE {<<clamp(faded, max_val, min_val), band_tick(dl)>>}

fft_compute_bands(max_val, min_val) ==
    /\ \E elem \in {[i \in Bands |-> band_elem(freq, xscale, data_out[i], delay[i], i,
                                                max_val, min_val)]} :
           \E a \in Arrays(Bands, elem) :
               /\ data_out' = [i \in Bands |-> a[i][1]]
               /\ delay' = [i \in Bands |-> a[i][2]]
    /\ call' = ShaperCall("fft_compute_bands", max_val, min_val)
    /\ entry' = [data_out |-> data_out, delay |-> delay]
    /\ UNCHANGED <<generated, tables, tables_computed, data, freq,
                   time_domain, writes, pre, display>>

Shapers == {"fft_compute_lin", "fft_compute_log", "fft_compute_bands"}

\* ---------------------------------------------------------------- specifications
\* The engine from program start: the statics are zero, the caller's array too.
Init ==
    /\ generated = FALSE
    /\ bitrev = [i \in Idx |-> 0]
    /\ window = [i \in 0 .. FFT_N * 2 - 1 |-> 0]
    /\ xscale = [i \in 0 .. BAND_N |-> 0]
    /\ root = [i \in 0 .. FFT_N \div 2 - 1 |-> CZero]
    /\ data = [i \in Idx |-> CZero]
    /\ freq = [i \in Idx |-> 0]
    /\ delay = [i \in Bands |-> 0]
    /\ data_out = [i \in Bands |-> 0]
    /\ call = NoCall
    /\ time_domain = TRUE
    /\ tables_computed = 0
    /\ writes = [k \in Idx |-> 0]
    /\ pre = [i \in Idx |-> CZero]
    /\ display = NoDisplay
    /\ entry = [data_out |-> data_out, delay |-> delay]

Next ==
    \/ fft_init
    \/ \E data_in \in Blocks, channel \in Channels : fft_load_data(data_in, channel)
    \/ \E scale_factor \in Scales : fft_execute(scale_factor)

Spec == Init /\ [][Next]_vars

\* The engine after fft_init, as a frame leaves it for the shapers
Initialized ==
    /\ generated = TRUE
    /\ bitrev = bitrev_table
    /\ window = window_table
    /\ xscale = xscale_table
    /\ root = root_table
    /\ data = [i \in Idx |-> CZero]
    /\ call = NoCall
    /\ time_domain = FALSE
    /\ tables_computed = 1
    /\ writes = [k \in Idx |-> 0]
    /\ pre = [i \in Idx |-> CZero]

\* spectrum levels at scale FreqScale: 0, 2.4, 24, 240, ...
Level(k) == IF k = 0 THEN 0 ELSE 24 * 10 ^ (k - 1) * (FreqScale \div 10)

Spectrum(k) ==
    [i \in Idx |-> IF k = 0 THEN 0 ELSE Level((i + k) % (MaxLevel + 1))]

Spectra == {Spectrum(k) : k \in 0 .. MaxLevel}

\* what the caller's array may hold before a call
OutVals == {0, 5, UINT16_MAX}

\* The shapers on any spectrum, any array contents and any hold counters.
InitShape ==
    /\ Initialized
    /\ freq \in Spectra
    /\ delay \in [Bands -> 0 .. BAND_DELAY]
    /\ data_out \in [Bands -> OutVals]
    /\ display = NoDisplay
    /\ entry = [data_out |-> data_out, delay |-> delay]

NextShape ==
    \/ \E a \in ArgPairs : fft_compute_lin(a[1], a[2])
    \/ \E a \in ArgPairs : fft_compute_log(a[1], a[2])
    \/ \E a \in ArgPairs : fft_compute_bands(a[1], a[2])

SpecShape == InitShape /\ [][NextShape]_vars

\* Frames of silence: the caller loads the all-zero block, transforms it and
\* calls the shaper of its display with the display's range, frame after frame.
InitZero ==
    /\ Initialized
    /\ freq = [i \in Idx |-> 0]
    /\ delay = [i \in Bands |-> 0]
    /\ data_out = [i \in Bands |-> 0]
    /\ display = NoDisplay
    /\ entry = [data_out |-> data_out, delay |-> delay]

\* what earlier frames left when the silence begins: any spectrum, any array
\* contents, any hold counters; the display has one shaper and one range
Earlier ==
    /\ display.mode = "none"
    /\ \E mode \in Shapers, a \in ArgPairs :
           display' = [mode |-> mode, max_val |-> a[1], min_val |-> a[2]]
    /\ freq' \in Spectra
    /\ delay' \in [Bands -> 0 .. BAND_DELAY]
    /\ data_out' \in [Bands -> OutVals]
    /\ entry' = [data_out |-> data_out', delay |-> delay']
    /\ UNCHANGED <<generated, tables, tables_computed, data, call, time_domain,
                   writes, pre>>

LoadSilence == \E channel \in ValidChannels : fft_load_data(RawBlock(0), channel)

Transform == \E scale_factor \in Scales : fft_execute(scale_factor)

Shape ==
    \/ display.mode = "fft_compute_lin"
       /\ fft_compute_lin(display.max_val, display.min_val)
    \/ display.mode = "fft_compute_log"
       /\ fft_compute_log(display.max_val, display.min_val)
    \/ display.mode = "fft_compute_bands"
       /\ fft_compute_bands(display.max_val, display.min_val)

\* a frame is load, transform, shape, in this order
NextZero ==
    \/ Earlier
    \/ display.mode # "none" /\ call.op \in Shapers \cup {"none"} /\ LoadSilence
    \/ call.op = "fft_load_data" /\ Transform
    \/ call.op = "fft_execute" /\ Shape

\* the external scheduler keeps delivering frames
SpecZero == InitZero /\ [][NextZero]_vars /\ WF_vars(NextZero)

\* ---------------------------------------------------------------- claims
Zeros == [i \in Idx |-> CZero]

InRange(v, min_val, max_val) == min_val <= v /\ v <= max_val

\* C1 as stated: when a shaper returns, every element of the output array
\* lies within [min_val, max_val], whatever the arguments.
C1_AnyArguments ==
    call.op \in Shapers =>
        \A i \in Bands : InRange(data_out[i], call.min_val, call.max_val)

\* C1, amended: when a shaper returns from a call with min_val <= max_val,
\* every element of the output array lies within [min_val, max_val],
\* whatever the spectrum and the array held before (out-of-range sums included).
C1_WithinRange ==
    (call.op \in Shapers /\ call.min_val <= call.max_val) =>
        \A i \in Bands : InRange(data_out[i], call.min_val, call.max_val)

\* a call on an array holding 65535 and 5 that returned one element at each
\* end of the range [3, 8]
C1_Witness ==
    /\ call.op \in Shapers
    /\ call.min_val = 3 /\ call.max_val = 8
    /\ entry.data_out[0] = UINT16_MAX /\ entry.data_out[1] = 5
    /\ data_out[0] = 8 /\ data_out[1] = 3

\* C2 as stated: a call of fft_init after the first leaves the tables, the
\* generated flag, the time-domain buffer and the spectrum as they were, and
\* the tables are computed once.
C2_SecondCallNoOp ==
    [][(generated /\ call'.op = "fft_init") =>
          /\ UNCHANGED <<bitrev, window, xscale, root, generated, freq, data>>
          /\ tables_computed' = 1]_vars

\* C2, amended: a call of fft_init after the first leaves the tables, the
\* generated flag and the spectrum as they were and does not compute the
\* tables again, but it clears the time-domain buffer to zeros.
C2_SecondCallClearsData ==
    [][(generated /\ call'.op = "fft_init") =>
          /\ UNCHANGED <<bitrev, window, xscale, root, generated, freq>>
          /\ tables_computed' = 1
          /\ data' = Zeros]_vars

\* fft_init returned with a spectrum that only an earlier frame, after an
\* earlier fft_init, can have produced
C2_Witness ==
    /\ call.op = "fft_init"
    /\ \E k \in Idx : freq[k] > 0
    /\ data = Zeros
    /\ tables_computed = 1

\* exp(-j * 2 * pi * k * n / FFT_N) for FFT_N = 4, at scale RootScale
ReferenceTwiddle(k, n) ==
    CASE (k * n) % FFT_N = 0 -> <<RootScale, 0>>
      [] (k * n) % FFT_N = 1 -> <<0, -RootScale>>
      [] (k * n) % FFT_N = 2 -> <<-RootScale, 0>>
      [] (k * n) % FFT_N = 3 -> <<0, RootScale>>

RECURSIVE ReferenceSum(_, _, _)
ReferenceSum(x, k, n) ==
    IF n = FFT_N THEN CZero
    ELSE cadd(cmul(x[n], ReferenceTwiddle(k, n)), ReferenceSum(x, k, n + 1))

\* the direct DFT of the sequence x
ReferenceDFT(x) == [k \in Idx |-> ReferenceSum(x, k, 0)]

\* a twentieth of one sample unit
Tolerance == DataScale \div 20

Close(z, w) == Abs(z[1] - w[1]) <= Tolerance /\ Abs(z[2] - w[2]) <= Tolerance

\* C3: after fft_execute, the buffer holds the DFT of the sequence that was
\* loaded in bit-reversed order (x[n] stood at index bitrev[n]), within the
\* tolerance.
C3_MatchesReferenceDFT ==
    (generated /\ call.op = "fft_execute") =>
        LET x == [n \in Idx |-> pre[bitrev[n]]]
        IN  \A k \in Idx : Close(data[k], ReferenceDFT(x)[k])

\* the j-th 16-bit value of slot i on the wire: L_re, R_re, L_im, R_im,
\* little endian
WireSample(data_in, i, j) ==
    LET v == data_in[8 * i + 2 * j] + 256 * data_in[8 * i + 2 * j + 1]
    IN  IF v >= 32768 THEN v - 65536 ELSE v

\* twice the real and the imaginary value the selector picks from slot i
Selected2(data_in, channel, i) ==
    LET s(j) == WireSample(data_in, i, j)
    IN  CASE channel = FFT_CHANNEL_L -> <<2 * s(0), 2 * s(2)>>
          [] channel = FFT_CHANNEL_R -> <<2 * s(1), 2 * s(3)>>
          [] channel = FFT_CHANNEL_LR -> <<s(0) + s(1), s(2) + s(3)>>

\* the windowed value of slot i at scale DataScale
Windowed(data_in, channel, i) ==
    LET c == Selected2(data_in, channel, i)
    IN  <<(c[1] * window[2 * i] * DataScale) \div (2 * WinScale),
          (c[2] * window[2 * i + 1] * DataScale) \div (2 * WinScale)>>

\* C4: after fft_load_data with a valid selector (and initialized tables),
\* every entry of data[] was stored exactly once, and the entry at bitrev[i]
\* is the windowed value of slot i of the block: a function of the arguments
\* and the tables alone.
C4_LoadOverwritesAll ==
    (generated /\ call.op = "fft_load_data" /\ call.channel \in ValidChannels) =>
        /\ \A k \in Idx : writes[k] = 1
        /\ \A i \in Idx :
               data[bitrev[i]] = Windowed(call.data_in, call.channel, i)

\* a block with sound was loaded over the transform of an earlier frame
C4_Witness ==
    /\ generated
    /\ call.op = "fft_load_data"
    /\ call.channel = FFT_CHANNEL_LR
    /\ call.data_in = RawBlock(1)
    /\ \E k \in Idx : pre[k] # CZero
    /\ \E k \in Idx : data[k] # CZero /\ data[k] # pre[k]

\* C5: fft_load_data with a selector that is none of L, R, LR changes nothing
\* of the engine state.
C5_UnknownChannelNoOp ==
    [][(call'.op = "fft_load_data" /\ call'.channel \notin ValidChannels) =>
          UNCHANGED <<data, freq, generated, bitrev, window, xscale, root,
                      delay, data_out>>]_vars

\* a block with sound was offered with an unknown selector while the buffer
\* held an earlier frame
C5_Witness ==
    /\ generated
    /\ call.op = "fft_load_data"
    /\ call.channel \notin ValidChannels
    /\ call.data_in = RawBlock(1)
    /\ \E k \in Idx : data[k] # CZero

\* the transform lengths the loop of bit_reverse is tried on besides FFT_N
Lengths == {2, 4, 8, 16}

\* C6: the bit-reversal table fft_init builds is a bijection over 0..FFT_N-1
\* and is its own inverse; so is the loop of bit_reverse started at n >> 1,
\* for the other powers of two n.
C6_BitrevInvolution ==
    generated =>
        /\ \A i \in Idx : bitrev[i] \in Idx /\ bitrev[bitrev[i]] = i
        /\ {bitrev[i] : i \in Idx} = Idx
        /\ \A n \in Lengths :
               LET rev(x) == bit_reverse_loop(n \div 2, x, 0)
               IN  /\ \A i \in 0 .. n - 1 : rev(rev(i)) = i
                   /\ {rev(i) : i \in 0 .. n - 1} = 0 .. n - 1

\* the table is built and is not the identity
C6_Witness == generated /\ bitrev[1] = 2 /\ bitrev[2] = 1

Silent == freq = [i \in Idx |-> 0]

\* C7 as stated: on frames of silence every element of the output array
\* eventually is zero or min_val and stays so, whatever the display's range.
C7_SilenceSettles ==
    <>[](\A i \in Bands : data_out[i] = 0 \/ data_out[i] = display.min_val)

\* C7, amended: on frames of silence, with the same min_val <= max_val on
\* every frame, the spectrum is zero and every element of the output array
\* eventually equals min_val (zero when min_val is zero) and stays there.
C7_SilenceSettlesInRange ==
    <>[](display.min_val <= display.max_val
            => Silent /\ \A i \in Bands : data_out[i] = display.min_val)

\* a silent frame found the band display settled at min_val = 3 and left it there
C7_Witness ==
    /\ display.mode = "fft_compute_bands"
    /\ display.min_val = 3 /\ display.max_val = 8
    /\ call.op = "fft_compute_bands"
    /\ Silent
    /\ \A i \in Bands : entry.data_out[i] = 3 /\ data_out[i] = 3 /\ delay[i] = 0

\* the value the last fft_compute_bands call computed for band b, over 64
NewValue64(b) == band_x64(freq, xscale, b, call.max_val)

\* the new value exceeds the value d
Exceeds(x64, d) == x64 # NEG_INF /\ x64 > 64 * d

\* the displayed value of band b at entry, after the fade
Decayed(b) == MAX(0, entry.data_out[b] - (BAND_FADE - entry.delay[b]))

\* C8 as stated: a band whose hold had expired (delay[b] = 0 at entry) and
\* whose new value does not exceed the displayed value does not increase.
C8_NonIncreasing ==
    call.op = "fft_compute_bands" =>
        \A b \in Bands :
            (entry.delay[b] = 0 /\ ~Exceeds(NewValue64(b), entry.data_out[b]))
                => data_out[b] <= entry.data_out[b]

\* C8, amended: such a band does not increase, except that a displayed value
\* below min_val is raised to min_val by the final clamp.
C8_NonIncreasingAboveMin ==
    call.op = "fft_compute_bands" =>
        \A b \in Bands :
            (entry.delay[b] = 0 /\ ~Exceeds(NewValue64(b), entry.data_out[b]))
                => data_out[b] <= MAX(entry.data_out[b], call.min_val)

\* a band with an expired hold and no new peak faded from 5 to 3
C8_Witness ==
    /\ call.op = "fft_compute_bands"
    /\ call.max_val = 8 /\ call.min_val = 0
    /\ entry.delay[0] = 0 /\ delay[0] = 0
    /\ ~Exceeds(NewValue64(0), entry.data_out[0])
    /\ entry.data_out[0] = 5 /\ data_out[0] = 3

\* the amount a call entered with hold counter dl subtracts
FadeRate(dl) == BAND_FADE - dl

\* the last fft_compute_bands call reset the hold of band b
Rose(b) == Exceeds(NewValue64(b), Decayed(b))

\* C9 as stated: in a hold (the band rose earlier, this call brought no new
\* rise, and delay[b] has not reached zero), the fade rate of the next frame
\* is not above the fade rate of this frame.
C9_FadeRateNotIncreasing ==
    call.op = "fft_compute_bands" =>
        \A b \in Bands :
            (entry.delay[b] > 0 /\ ~Rose(b) /\ delay[b] > 0)
                => FadeRate(delay[b]) <= FadeRate(entry.delay[b])

\* C9, amended: the fade rate is BAND_FADE - delay[b]: a rise sets it to
\* BAND_FADE - BAND_DELAY, each later frame without a rise subtracts it
\* (floored at zero, then clamped) and raises it by one until delay[b] is
\* zero, from where it stays BAND_FADE; it never exceeds BAND_FADE.
C9_FadeRateGrowsToFade ==
    call.op = "fft_compute_bands" =>
        \A b \in Bands :
            LET r0 == FadeRate(entry.delay[b])
                r1 == FadeRate(delay[b])
                d1 == MAX(0, entry.data_out[b] - r0)
            IN  /\ r1 >= BAND_FADE - BAND_DELAY /\ r1 <= BAND_FADE
                /\ Rose(b) => r1 = BAND_FADE - BAND_DELAY
                /\ (~Rose(b) /\ entry.delay[b] > 0) => r1 = r0 + 1
                /\ (~Rose(b) /\ entry.delay[b] = 0) => r1 = BAND_FADE /\ r0 = BAND_FADE
                /\ ~Rose(b) =>
                       data_out[b] = IF d1 > call.max_val THEN call.max_val
                                     ELSE IF d1 < call.min_val THEN call.min_val
                                     ELSE d1

\* a frame in the hold of band 0: entered with delay 2 (rate 0), left with
\* delay 1 (rate 1), no rise
C9_Witness ==
    /\ call.op = "fft_compute_bands"
    /\ entry.delay[0] = BAND_DELAY /\ delay[0] = BAND_DELAY - 1
    /\ ~Rose(0)
    /\ entry.data_out[0] = 5 /\ data_out[0] = 5

\* C10: in fft_compute_bands, a band whose new value exceeds the decayed
\* displayed value shows the new value, clamped, and gets delay[b] =
\* BAND_DELAY; any other band has its delay[b] decremented if positive;
\* delay[b] stays within 0..BAND_DELAY.
C10_SnapAndHold ==
    call.op = "fft_compute_bands" =>
        \A b \in Bands :
            LET x == Trunc(NewValue64(b), 64)
            IN  /\ Rose(b) =>
                       /\ data_out[b] = IF x > call.max_val THEN call.max_val
                                        ELSE IF x < call.min_val THEN call.min_val
                                        ELSE x
                       /\ delay[b] = BAND_DELAY
                /\ ~Rose(b) =>
                       delay[b] = IF entry.delay[b] > 0 THEN entry.delay[b] - 1 ELSE 0
                /\ delay[b] \in 0 .. BAND_DELAY

\* C10 without the conversion of a new value above UINT16_MAX: the snap and
\* the hold counter are as the claim says.
C10_SnapAndHoldRepresentable ==
    call.op = "fft_compute_bands" =>
        \A b \in Bands :
            LET x == Trunc(NewValue64(b), 64)
            IN  /\ (Rose(b) /\ x <= UINT16_MAX) =>
                       /\ data_out[b] = IF x > call.max_val THEN call.max_val
                                        ELSE IF x < call.min_val THEN call.min_val
                                        ELSE x
                       /\ delay[b] = BAND_DELAY
                /\ Rose(b) => delay[b] = BAND_DELAY
                /\ ~Rose(b) =>
                       delay[b] = IF entry.delay[b] > 0 THEN entry.delay[b] - 1 ELSE 0
                /\ delay[b] \in 0 .. BAND_DELAY

====
